---- MODULE Spec2Model ----
(***************************************************************************)
(* The CAAS unit provisioner (worker/caasunitprovisioner/worker.go):       *)
(* the root loop that maps application change events onto per-application  *)
(* workers, the removal handshake with a worker, and the catacomb          *)
(* (supervision tree) contract both rest on.                                *)
(***************************************************************************)
EXTENDS Naturals, Sequences, FiniteSets

\* ---------------------------------------------------------------- bounds
\* The names the watcher delivers in total, over all its batches.
MaxEntries == 3

Apps == {"app1", "app2"}

\* ---------------------------------------------------------------- errors
Err(kind, n) == [kind |-> kind, n |-> n]

Nil == Err("nil", 0)

\* catacomb.ErrDying(): the loop's return value on a requested shutdown.
ErrDying == Err("ErrDying", 0)

ErrWatch == Err("WatchApplications", 0)
ErrLife == Err("Life", 0)
ErrUnexpose == Err("UnexposeService", 0)
ErrDelete == Err("DeleteService", 0)
ErrConfig == Err("ApplicationConfig", 0)
ErrNew == Err("newApplicationWorker", 0)
ErrClosed == Err("watcher closed channel", 0)
ErrWatcher == Err("watcher", 0)

\* The error of application worker number w.
ErrWorker(w) == Err("worker", w)

\* The outcomes of LifeGetter.Life.
LifeValues == {"alive", "dying", "dead"}

\* ------------------------------------------------------- watcher batches
RECURSIVE SeqsUpTo(_, _)
SeqsUpTo(S, n) ==
    IF n = 0 THEN {<<>>}
    ELSE LET shorter == SeqsUpTo(S, n - 1)
         IN  shorter \cup {Append(s, x) : s \in {t \in shorter : Len(t) = n - 1}, x \in S}

\* The batches of at most n names.
Batches(n) == SeqsUpTo(Apps, n)

VARIABLES
    pc,          \* the position of provisioner.loop
    batch,       \* the names of the batch in hand not yet fully handled (head = appId)
    calls,       \* the calls made for the entry in hand, with their results
    curW,        \* the worker found by getApplicationWorker on the NotFound path (0: none)
    appWorkers,  \* the Worker Registry: application name -> worker number
    workers,     \* every application worker constructed so far
    watcher,     \* the application watcher: its task and its Changes() channel
    rootDying,   \* the provisioner's catacomb death signal has fired
    rootErr,     \* the provisioner's catacomb terminal error
    loopRet,     \* what provisioner.loop returned (Nil while it runs)
    waitResult,  \* what provisioner.Wait() returned (<<>> while it blocks)
    nEntries,    \* names delivered so far, over all batches
    config,      \* the Config given to NewWorker: the fields that are not nil
    newErr,      \* the error NewWorker returned (<<>> before it returns)
    mu,          \* p.mu: "free", or the caller that holds it
    allocated,   \* p.appWorkers is not nil
    lk,          \* the loop's call of a registry helper, step by step
    rd           \* a getApplicationWorker call made from outside the loop

\* p.mu and the registry helpers taken step by step (RegSpec only).
regs == <<mu, allocated, lk, rd>>

\* What the provisioner's own methods and tasks never write.
others == <<config, newErr, regs>>

vars == <<pc, batch, calls, curW, appWorkers, workers, watcher, rootDying,
          rootErr, loopRet, waitResult, nEntries, others>>

Pending == <<>>

WorkerIds == 1 .. Len(workers)

Registered(a) == a \in DOMAIN appWorkers

\* The death signal of worker w has fired.
WorkerDying(w) == workers[w].st # "running"

Call(op, a, res) == [op |-> op, app |-> a, res |-> res]

\* The fields of Config.
ConfigFields ==
    {"ApplicationGetter", "ApplicationUpdater", "ServiceBroker",
     "ContainerBroker", "PodSpecGetter", "LifeGetter", "UnitGetter",
     "UnitUpdater"}

Init ==
    /\ pc = "new"
    /\ config \in SUBSET ConfigFields
    /\ newErr = Pending
    /\ batch = <<>>
    /\ calls = <<>>
    /\ curW = 0
    /\ appWorkers = [a \in {} |-> 0]
    /\ workers = <<>>
    /\ watcher = [st |-> "none", closed |-> FALSE]
    /\ rootDying = FALSE
    /\ rootErr = Nil
    /\ loopRet = Nil
    /\ waitResult = Pending
    /\ nEntries = 0
    /\ mu = "free"
    /\ allocated = FALSE
    /\ lk = [pc |-> "idle", at |-> <<"", 0>>, res |-> 0]
    /\ rd = [pc |-> "idle", name |-> "", res |-> 0, seen |-> {}]

\* ------------------------------------------------------------- catacomb
\* tomb.Kill(reason): the first non-nil reason is kept, ErrDying is no reason.
KillReason(old, e) == IF old = Nil /\ e # ErrDying THEN e ELSE old

\* catacomb.Kill(e) on the provisioner's catacomb.
CatacombKill(e) ==
    /\ rootDying' = TRUE
    /\ rootErr' = KillReason(rootErr, e)

\* provisioner.loop returns e: the catacomb is killed with the loop's result.
Return(e) ==
    /\ pc' = "done"
    /\ loopRet' = e
    /\ CatacombKill(e)

ContinueBreaks ==
    /\ batch' = <<>>
    /\ pc' = "select"

\* The `continue` of the per-name loop: on to the next name, or back to the select.
Continue ==
    /\ batch' = Tail(batch)
    /\ pc' = IF Tail(batch) = <<>> THEN "select" ELSE "life"

\* ------------------------------------------------------------ NewWorker
\* errors.NotValidf("missing <field>")
NotValidf(field) == [kind |-> "NotValid", missing |-> field]

ValidateForgetsUnitUpdater(c) ==
    LET missing == (ConfigFields \ {"UnitUpdater"}) \ c
    IN  IF missing # {} THEN NotValidf(CHOOSE f \in missing : TRUE) ELSE Nil

\* Config.Validate: the first nil field, in the order of the checks.
Validate(c) ==
    IF "ApplicationGetter" \notin c THEN NotValidf("ApplicationGetter")
    ELSE IF "ApplicationUpdater" \notin c THEN NotValidf("ApplicationUpdater")
    ELSE IF "ServiceBroker" \notin c THEN NotValidf("ServiceBroker")
    ELSE IF "ContainerBroker" \notin c THEN NotValidf("ContainerBroker")
    ELSE IF "PodSpecGetter" \notin c THEN NotValidf("PodSpecGetter")
    ELSE IF "LifeGetter" \notin c THEN NotValidf("LifeGetter")
    ELSE IF "UnitGetter" \notin c THEN NotValidf("UnitGetter")
    ELSE IF "UnitUpdater" \notin c THEN NotValidf("UnitUpdater")
    ELSE Nil

\* NewWorker: an invalid Config is refused; otherwise catacomb.Invoke starts
\* p.loop.
NewWorker ==
    /\ pc = "new"
    /\ newErr' = Validate(config)
    /\ pc' = IF Validate(config) = Nil THEN "start" ELSE "invalid"
    /\ UNCHANGED <<batch, calls, curW, appWorkers, workers, watcher, rootDying,
                   rootErr, loopRet, waitResult, nEntries, config, regs>>

\* ------------------------------------------------------- provisioner API
\* provisioner.Kill
Kill ==
    /\ pc \notin {"new", "invalid"}
    /\ ~rootDying
    /\ CatacombKill(Nil)
    /\ UNCHANGED <<pc, batch, calls, curW, appWorkers, workers, watcher,
                   loopRet, waitResult, nEntries>>
    /\ UNCHANGED others

\* provisioner.Wait: returns once the loop and every attached child has finished.
Wait ==
    /\ waitResult = Pending
    /\ pc = "done"
    /\ watcher.st # "running"
    /\ \A w \in WorkerIds : workers[w].attached => workers[w].st = "dead"
    /\ waitResult' = rootErr
    /\ UNCHANGED <<pc, batch, calls, curW, appWorkers, workers, watcher,
                   rootDying, rootErr, loopRet, nEntries>>
    /\ UNCHANGED others

\* ------------------------------------------------------ Worker Registry
\* provisioner.saveApplicationWorker
SaveApplicationWorker(m, a, w) ==
    [x \in DOMAIN m \cup {a} |-> IF x = a THEN w ELSE m[x]]

DeleteApplicationWorkerKeeps(m, a) == m

\* provisioner.deleteApplicationWorker
DeleteApplicationWorker(m, a) == [x \in DOMAIN m \ {a} |-> m[x]]

GetApplicationWorkerAnyName(m, a) ==
    IF Cardinality(DOMAIN m) = 0 THEN 0
    ELSE m[CHOOSE x \in DOMAIN m : TRUE]

\* provisioner.getApplicationWorker: the worker's number, 0 when ok is false.
GetApplicationWorker(m, a) ==
    IF Cardinality(DOMAIN m) = 0 THEN 0
    ELSE IF a \in DOMAIN m THEN m[a] ELSE 0

\* ------------------------------------------------------ provisioner.loop
appId == Head(batch)

\* WatchApplications and catacomb.Add of the watcher.
LoopWatch ==
    /\ pc = "start"
    /\ \/ /\ calls' = <<Call("WatchApplications", "", "err")>>
          /\ Return(ErrWatch)
          /\ UNCHANGED watcher
       \/ /\ ~rootDying
          /\ calls' = <<Call("WatchApplications", "", "ok")>>
          /\ watcher' = [watcher EXCEPT !.st = "running"]
          /\ pc' = "select"
          /\ UNCHANGED <<loopRet, rootDying, rootErr>>
       \/ \* Add on a dying catacomb stops the watcher and fails with ErrDying.
          /\ rootDying
          /\ calls' = <<Call("WatchApplications", "", "ok")>>
          /\ watcher' = [watcher EXCEPT !.st = "stopped"]
          /\ Return(ErrDying)
    /\ UNCHANGED <<batch, curW, appWorkers, workers, waitResult, nEntries>>
    /\ UNCHANGED others

DyingResultIsError == ErrClosed

\* What the loop returns when it finds the catacomb dying.
DyingResult == ErrDying

LoopDyingMissed ==
    /\ pc = "select"
    /\ rootDying
    /\ UNCHANGED vars

\* case <-p.catacomb.Dying()
LoopDying ==
    /\ pc = "select"
    /\ rootDying
    /\ Return(DyingResult)
    /\ UNCHANGED <<batch, calls, curW, appWorkers, workers, watcher,
                   waitResult, nEntries>>
    /\ UNCHANGED others

ClosedResultIsDying == ErrDying

\* What the loop returns when the Changes() channel is closed.
ClosedResult == ErrClosed

\* case apps, ok := <-w.Changes() with ok false
LoopClosed ==
    /\ pc = "select"
    /\ watcher.closed
    /\ Return(ClosedResult)
    /\ UNCHANGED <<batch, calls, curW, appWorkers, workers, watcher,
                   waitResult, nEntries>>
    /\ UNCHANGED others

\* case apps, ok := <-w.Changes() with ok true
LoopRecv ==
    /\ pc = "select"
    /\ watcher.st = "running"
    /\ ~watcher.closed
    /\ \E b \in Batches(MaxEntries - nEntries) :
          /\ batch' = b
          /\ pc' = IF b = <<>> THEN "select" ELSE "life"
          /\ nEntries' = nEntries + Len(b)
    /\ calls' = <<>>
    /\ UNCHANGED <<curW, appWorkers, workers, watcher, rootDying, rootErr,
                   loopRet, waitResult>>
    /\ UNCHANGED others

\* Where the loop goes after Life answered l without an error other than NotFound.
AfterLifeDeleteOnly(l) == IF l = "notfound" THEN "delete" ELSE "check"

AfterLifeSkipsCleanup(l) == IF l = "notfound" THEN "lookup" ELSE "check"

AfterLife(l) == IF l = "notfound" THEN "unexpose" ELSE "check"

\* appLife, err := p.config.LifeGetter.Life(appId)
LoopLife ==
    /\ pc = "life"
    /\ \/ \E l \in LifeValues \cup {"notfound"} :
             /\ calls' = <<Call("Life", appId, l)>>
             /\ pc' = AfterLife(l)
             /\ UNCHANGED <<loopRet, rootDying, rootErr>>
       \/ /\ calls' = <<Call("Life", appId, "err")>>
          /\ Return(ErrLife)
    /\ UNCHANGED <<batch, curW, appWorkers, workers, watcher, waitResult, nEntries>>
    /\ UNCHANGED others

BrokerStepIgnoresError(res, e, next) ==
    /\ pc' = next
    /\ UNCHANGED <<loopRet, rootDying, rootErr>>

\* The loop's step after a broker call of the NotFound path answered res.
BrokerStep(res, e, next) ==
    IF res = "err" THEN Return(e)
    ELSE /\ pc' = next
         /\ UNCHANGED <<loopRet, rootDying, rootErr>>

\* p.config.ContainerBroker.UnexposeService(appId)
LoopUnexpose ==
    /\ pc = "unexpose"
    /\ \E res \in {"ok", "err"} :
          /\ calls' = Append(calls, Call("UnexposeService", appId, res))
          /\ BrokerStep(res, ErrUnexpose, "delete")
    /\ UNCHANGED <<batch, curW, appWorkers, workers, watcher, waitResult, nEntries>>
    /\ UNCHANGED others

\* p.config.ContainerBroker.DeleteService(appId)
LoopDelete ==
    /\ pc = "delete"
    /\ \E res \in {"ok", "err"} :
          /\ calls' = Append(calls, Call("DeleteService", appId, res))
          /\ BrokerStep(res, ErrDelete, "lookup")
    /\ UNCHANGED <<batch, curW, appWorkers, workers, watcher, waitResult, nEntries>>
    /\ UNCHANGED others

\* w, ok := p.getApplicationWorker(appId) on the NotFound path
LoopLookup ==
    /\ pc = "lookup"
    /\ LET w == GetApplicationWorker(appWorkers, appId)
       IN  IF w # 0
           THEN /\ curW' = w
                /\ pc' = "handshake"
                /\ calls' = Append(calls, Call("getApplicationWorker", appId, "found"))
                /\ UNCHANGED batch
           ELSE /\ curW' = 0
                /\ calls' = Append(calls, Call("getApplicationWorker", appId, "absent"))
                /\ Continue
    /\ UNCHANGED <<appWorkers, workers, watcher, rootDying, rootErr, loopRet,
                   waitResult, nEntries>>
    /\ UNCHANGED others

\* A worker whose loop is still selecting can take the removal notice.
CanReceive(w) == workers[w].st \in {"running", "killed"}

DyingBranchAlwaysReady(w) == TRUE

DyingBranchNeverReady(w) == FALSE

\* case <-w.catacomb.Dying() of the handshake is ready.
DyingBranchReady(w) == WorkerDying(w)

\* case w.appRemoved <- struct{}{}
LoopSend ==
    /\ pc = "handshake"
    /\ CanReceive(curW)
    /\ workers' = [workers EXCEPT ![curW].ch = "sent", ![curW].fired = @ + 1]
    /\ pc' = "stop"
    /\ UNCHANGED <<batch, calls, curW, appWorkers, watcher, rootDying, rootErr,
                   loopRet, waitResult, nEntries>>
    /\ UNCHANGED others

\* case <-w.catacomb.Dying(): close(w.appRemoved)
LoopClose ==
    /\ pc = "handshake"
    /\ DyingBranchReady(curW)
    /\ workers' = [workers EXCEPT ![curW].ch = "closed", ![curW].fired = @ + 1]
    /\ pc' = "stop"
    /\ UNCHANGED <<batch, calls, curW, appWorkers, watcher, rootDying, rootErr,
                   loopRet, waitResult, nEntries>>
    /\ UNCHANGED others

\* worker.Stop(w), first half: w.Kill()
LoopStop ==
    /\ pc = "stop"
    /\ workers' = [workers EXCEPT ![curW].st =
                       IF @ = "running" THEN "killed" ELSE @]
    /\ pc' = "stopwait"
    /\ UNCHANGED <<batch, calls, curW, appWorkers, watcher, rootDying, rootErr,
                   loopRet, waitResult, nEntries>>
    /\ UNCHANGED others

\* worker.Stop(w), second half: w.Wait(); its error is logged; then
\* p.deleteApplicationWorker(appId) and continue.
LoopStopped ==
    /\ pc = "stopwait"
    /\ workers[curW].st = "dead"
    /\ calls' = Append(calls, Call("Stop", appId,
                    IF workers[curW].err = Nil THEN "ok" ELSE "err"))
    /\ appWorkers' = DeleteApplicationWorker(appWorkers, appId)
    /\ curW' = 0
    /\ Continue
    /\ UNCHANGED <<workers, watcher, rootDying, rootErr, loopRet, waitResult,
                   nEntries>>
    /\ UNCHANGED others

AlreadyWatchingDeadOnly(a, l) == l = "dead"

AlreadyWatchingRegisteredOnly(a, l) == GetApplicationWorker(appWorkers, a) # 0

AlreadyWatchingLiveOnly(a, l) ==
    LET w == GetApplicationWorker(appWorkers, a)
    IN  (IF w # 0 THEN workers[w].st # "dead" ELSE FALSE) \/ l = "dead"

\* if _, ok := p.getApplicationWorker(appId); ok || appLife == life.Dead
AlreadyWatching(a, l) == GetApplicationWorker(appWorkers, a) # 0 \/ l = "dead"

LoopCheck ==
    /\ pc = "check"
    /\ calls' = Append(calls, Call("getApplicationWorker", appId,
                    IF GetApplicationWorker(appWorkers, appId) # 0
                    THEN "found" ELSE "absent"))
    /\ IF AlreadyWatching(appId, calls[1].res)
       THEN Continue
       ELSE /\ pc' = "config"
            /\ UNCHANGED batch
    /\ UNCHANGED <<curW, appWorkers, workers, watcher, rootDying, rootErr,
                   loopRet, waitResult, nEntries>>
    /\ UNCHANGED others

\* cfg, err := p.config.ApplicationGetter.ApplicationConfig(appId)
LoopConfig ==
    /\ pc = "config"
    /\ \E res \in {"ok", "err"} :
          /\ calls' = Append(calls, Call("ApplicationConfig", appId, res))
          /\ BrokerStep(res, ErrConfig, "construct")
    /\ UNCHANGED <<batch, curW, appWorkers, workers, watcher, waitResult, nEntries>>
    /\ UNCHANGED others

\* A worker as newApplicationWorker returns it: running, with a fresh appRemoved.
NewApplicationWorkerSharedChan(a) ==
    [app |-> a, st |-> "running", err |-> Nil, ch |-> "open", attached |-> FALSE,
     chan |-> 1, fired |-> 0]

\* chan is the channel make(chan struct{}) returned, fired counts the sends
\* and closes on it.
NewApplicationWorker(a) ==
    [app |-> a, st |-> "running", err |-> Nil, ch |-> "open", attached |-> FALSE,
     chan |-> Len(workers) + 1, fired |-> 0]

AddedWorkerNotBound(a) ==
    [app |-> a, st |-> "running", err |-> Nil, ch |-> "open", attached |-> FALSE,
     chan |-> Len(workers) + 1, fired |-> 0]

\* p.catacomb.Add(w): the worker is bound to the provisioner's catacomb.
AddedWorker(a) == [NewApplicationWorker(a) EXCEPT !.attached = TRUE]

\* newApplicationWorker fails.
LoopConstructFails ==
    /\ pc = "construct"
    /\ calls' = Append(calls, Call("newApplicationWorker", appId, "err"))
    /\ Return(ErrNew)
    /\ UNCHANGED <<batch, curW, appWorkers, workers, watcher, waitResult, nEntries>>
    /\ UNCHANGED others

\* newApplicationWorker, p.saveApplicationWorker(appId, w), p.catacomb.Add(w)
\* on a catacomb that takes the worker.
LoopConstruct ==
    /\ pc = "construct"
    /\ LET w == Len(workers) + 1
       IN  /\ calls' = Append(calls, Call("newApplicationWorker", appId, "ok"))
           /\ appWorkers' = SaveApplicationWorker(appWorkers, appId, w)
           /\ \/ /\ workers' = Append(workers, AddedWorker(appId))
                 /\ curW' = curW
                 /\ Continue
              \/ \* Add on a dying catacomb may stop the worker itself and wait.
                 /\ rootDying
                 /\ workers' = Append(workers,
                        [NewApplicationWorker(appId) EXCEPT !.st = "killed"])
                 /\ curW' = w
                 /\ pc' = "addstop"
                 /\ UNCHANGED batch
    /\ UNCHANGED <<watcher, rootDying, rootErr, loopRet, waitResult, nEntries>>
    /\ UNCHANGED others

\* p.catacomb.Add(w) on a dying catacomb returns once the worker it stopped
\* has finished; the loop drops the error Add returns.
LoopAddStopped ==
    /\ pc = "addstop"
    /\ workers[curW].st = "dead"
    /\ curW' = 0
    /\ Continue
    /\ UNCHANGED <<calls, appWorkers, workers, watcher, rootDying, rootErr,
                   loopRet, waitResult, nEntries>>
    /\ UNCHANGED others

Loop ==
    \/ LoopWatch \/ LoopDying \/ LoopClosed \/ LoopRecv \/ LoopLife
    \/ LoopUnexpose \/ LoopDelete \/ LoopLookup \/ LoopSend \/ LoopClose
    \/ LoopStop \/ LoopStopped \/ LoopCheck \/ LoopConfig
    \/ LoopConstructFails \/ LoopConstruct \/ LoopAddStopped

\* ---------------------------------------------------- application worker
\* The worker's task ends by itself, with or without an error: its death
\* signal fires and its loop no longer selects.
WorkerDies(w) ==
    /\ w \in WorkerIds
    /\ workers[w].st = "running"
    /\ \E e \in {Nil, ErrWorker(w)} :
          workers' = [workers EXCEPT ![w].st = "stopping", ![w].err = e]
    /\ UNCHANGED <<pc, batch, calls, curW, appWorkers, watcher, rootDying,
                   rootErr, loopRet, waitResult, nEntries>>
    /\ UNCHANGED others

\* The worker's task has finished: Wait() of the worker returns its error,
\* which kills the catacomb the worker is attached to.
WorkerExits(w) ==
    /\ w \in WorkerIds
    /\ workers[w].st \in {"killed", "stopping"}
    /\ \E e \in {Nil, ErrWorker(w)} :
          LET err == IF workers[w].st = "stopping" THEN workers[w].err ELSE e
          IN  /\ workers' = [workers EXCEPT ![w].st = "dead", ![w].err = err]
              /\ IF workers[w].attached /\ err # Nil
                 THEN CatacombKill(err)
                 ELSE UNCHANGED <<rootDying, rootErr>>
    /\ UNCHANGED <<pc, batch, calls, curW, appWorkers, watcher, loopRet,
                   waitResult, nEntries>>
    /\ UNCHANGED others

\* The dying catacomb stops an attached worker.
CatacombStopsWorker(w) ==
    /\ w \in WorkerIds
    /\ rootDying
    /\ workers[w].attached
    /\ workers[w].st = "running"
    /\ workers' = [workers EXCEPT ![w].st = "killed"]
    /\ UNCHANGED <<pc, batch, calls, curW, appWorkers, watcher, rootDying,
                   rootErr, loopRet, waitResult, nEntries>>
    /\ UNCHANGED others

\* ---------------------------------------------------------------- watcher
\* The dying catacomb stops the watcher.
CatacombStopsWatcher ==
    /\ rootDying
    /\ watcher.st = "running"
    /\ watcher' = [watcher EXCEPT !.st = "stopped"]
    /\ UNCHANGED <<pc, batch, calls, curW, appWorkers, workers, rootDying,
                   rootErr, loopRet, waitResult, nEntries>>
    /\ UNCHANGED others

\* The watcher fails: fatal to the catacomb it is attached to.
WatcherFails ==
    /\ watcher.st = "running"
    /\ watcher' = [watcher EXCEPT !.st = "failed"]
    /\ CatacombKill(ErrWatcher)
    /\ UNCHANGED <<pc, batch, calls, curW, appWorkers, workers, loopRet,
                   waitResult, nEntries>>
    /\ UNCHANGED others

\* The Changes() channel is closed.
WatcherCloses ==
    /\ watcher.st # "none"
    /\ ~watcher.closed
    /\ watcher' = [watcher EXCEPT !.closed = TRUE]
    /\ UNCHANGED <<pc, batch, calls, curW, appWorkers, workers, rootDying,
                   rootErr, loopRet, waitResult, nEntries>>
    /\ UNCHANGED others

Next ==
    \/ NewWorker
    \/ Kill
    \/ Wait
    \/ Loop
    \/ \E w \in WorkerIds : WorkerDies(w)
    \/ \E w \in WorkerIds : WorkerExits(w)
    \/ \E w \in WorkerIds : CatacombStopsWorker(w)
    \/ CatacombStopsWatcher
    \/ WatcherFails
    \/ WatcherCloses

Spec == Init /\ [][Next]_vars

\* The scheduling the liveness claims rest on: the loop's goroutine runs and
\* its calls return, a worker asked to stop finishes, the catacomb's
\* goroutines run, and a blocked Wait returns once it can.  Nothing makes
\* Kill, a failure or a close of the watcher's channel happen.
Fairness ==
    /\ WF_vars(Loop)
    /\ WF_vars(Wait)
    /\ WF_vars(CatacombStopsWatcher)
    /\ \A w \in 1 .. MaxEntries :
          WF_vars(WorkerExits(w)) /\ WF_vars(CatacombStopsWorker(w))

FairSpec == Spec /\ Fairness

\* ------------------------------------------------- the registry's mutex
\* The same program with the three registry helpers taken apart into
\* Lock, the map operation and the deferred Unlock, and with a second
\* caller of getApplicationWorker, as the helpers' comment has it.
CanLockAlways(m) == TRUE

\* p.mu.Lock() returns: the mutex was free.
CanLock(m) == m = "free"

UnlockForgotten(m) == m

\* defer p.mu.Unlock()
Unlocked(m) == "free"

\* Where the loop calls a registry helper.
HelperPcs == {"lookup", "check", "stopwait", "construct"}

\* The helper called there.
HelperOp ==
    IF pc \in {"lookup", "check"} THEN "get"
    ELSE IF pc = "stopwait" THEN "delete"
    ELSE "save"

\* This visit of this place of the loop: the place and the number of the entry.
LoopAt == <<pc, nEntries - Len(batch) + 1>>

HelperReturned == lk.pc = "returned" /\ lk.at = LoopAt

\* The loop calls the helper of the place it is at, and gets the mutex.
HelperLock ==
    /\ pc \in HelperPcs
    /\ lk.at # LoopAt
    /\ pc = "stopwait" => workers[curW].st = "dead"
    /\ CanLock(mu)
    /\ mu' = "loop"
    /\ lk' = [pc |-> "locked", at |-> LoopAt, res |-> 0]
    /\ UNCHANGED <<pc, batch, calls, curW, appWorkers, workers, watcher,
                   rootDying, rootErr, loopRet, waitResult, nEntries, config,
                   newErr, allocated, rd>>

\* saveApplicationWorker and deleteApplicationWorker begin to change the map
\* (save allocates it first when it is nil).
HelperWriteBegins ==
    /\ lk.pc = "locked"
    /\ HelperOp \in {"save", "delete"}
    /\ lk' = [lk EXCEPT !.pc = "writing"]
    /\ UNCHANGED <<pc, batch, calls, curW, appWorkers, workers, watcher,
                   rootDying, rootErr, loopRet, waitResult, nEntries, config,
                   newErr, mu, allocated, rd>>

\* The map after the helper called at this place.
Written ==
    IF HelperOp = "save"
    THEN SaveApplicationWorker(appWorkers, appId, Len(workers) + 1)
    ELSE DeleteApplicationWorker(appWorkers, appId)

\* The change of the map is complete.
HelperWriteEnds ==
    /\ lk.pc = "writing"
    /\ appWorkers' = Written
    /\ allocated' = (allocated \/ HelperOp = "save")
    /\ lk' = [lk EXCEPT !.pc = "done"]
    /\ rd' = IF rd.pc \in {"called", "locked"}
             THEN [rd EXCEPT !.seen =
                      @ \cup {GetApplicationWorker(Written, rd.name)}]
             ELSE rd
    /\ UNCHANGED <<pc, batch, calls, curW, workers, watcher, rootDying,
                   rootErr, loopRet, waitResult, nEntries, config, newErr, mu>>

\* The body of getApplicationWorker, called by the loop.
HelperReads ==
    /\ lk.pc = "locked"
    /\ HelperOp = "get"
    /\ lk' = [lk EXCEPT !.pc = "done",
                        !.res = GetApplicationWorker(appWorkers, appId)]
    /\ UNCHANGED <<pc, batch, calls, curW, appWorkers, workers, watcher,
                   rootDying, rootErr, loopRet, waitResult, nEntries, config,
                   newErr, mu, allocated, rd>>

\* The helper returns and its deferred Unlock runs.
HelperUnlock ==
    /\ lk.pc = "done"
    /\ mu' = Unlocked(mu)
    /\ lk' = [lk EXCEPT !.pc = "returned"]
    /\ UNCHANGED <<pc, batch, calls, curW, appWorkers, workers, watcher,
                   rootDying, rootErr, loopRet, waitResult, nEntries, config,
                   newErr, allocated, rd>>

\* getApplicationWorker(a) is called from outside the loop; seen collects
\* what the registry holds for a from now until the map is read.
TestCall(a) ==
    /\ pc \notin {"new", "invalid"}
    /\ rd.pc = "idle"
    /\ rd' = [pc |-> "called", name |-> a, res |-> 0,
              seen |-> {GetApplicationWorker(appWorkers, a)}]
    /\ UNCHANGED <<pc, batch, calls, curW, appWorkers, workers, watcher,
                   rootDying, rootErr, loopRet, waitResult, nEntries, config,
                   newErr, mu, allocated, lk>>

TestLock ==
    /\ rd.pc = "called"
    /\ CanLock(mu)
    /\ mu' = "test"
    /\ rd' = [rd EXCEPT !.pc = "locked"]
    /\ UNCHANGED <<pc, batch, calls, curW, appWorkers, workers, watcher,
                   rootDying, rootErr, loopRet, waitResult, nEntries, config,
                   newErr, allocated, lk>>

\* The body of getApplicationWorker. A read of the map while it is being
\* written is a data race: any answer.
TestReads ==
    /\ rd.pc = "locked"
    /\ \E r \in 0 .. MaxEntries :
          /\ lk.pc # "writing" => r = GetApplicationWorker(appWorkers, rd.name)
          /\ rd' = [rd EXCEPT !.pc = "read", !.res = r]
    /\ UNCHANGED <<pc, batch, calls, curW, appWorkers, workers, watcher,
                   rootDying, rootErr, loopRet, waitResult, nEntries, config,
                   newErr, mu, allocated, lk>>

TestUnlock ==
    /\ rd.pc = "read"
    /\ mu' = Unlocked(mu)
    /\ rd' = [pc |-> "idle", name |-> "", res |-> 0, seen |-> {}]
    /\ UNCHANGED <<pc, batch, calls, curW, appWorkers, workers, watcher,
                   rootDying, rootErr, loopRet, waitResult, nEntries, config,
                   newErr, allocated, lk>>

\* The steps of the loop: as before where it calls no helper; after the
\* helper returned where it calls one; newApplicationWorker fails before
\* saveApplicationWorker is called.
RegLoop ==
    \/ pc \notin HelperPcs /\ Loop
    \/ HelperReturned /\ (LoopLookup \/ LoopCheck \/ LoopStopped \/ LoopConstruct)
    \/ lk.at # LoopAt /\ LoopConstructFails

RegInit == Init /\ config = ConfigFields

RegNext ==
    \/ NewWorker
    \/ Kill
    \/ Wait
    \/ RegLoop
    \/ HelperLock
    \/ HelperWriteBegins
    \/ HelperWriteEnds
    \/ HelperReads
    \/ HelperUnlock
    \/ \E a \in Apps : TestCall(a)
    \/ TestLock
    \/ TestReads
    \/ TestUnlock
    \/ \E w \in WorkerIds : WorkerDies(w)
    \/ \E w \in WorkerIds : WorkerExits(w)
    \/ \E w \in WorkerIds : CatacombStopsWorker(w)
    \/ CatacombStopsWatcher
    \/ WatcherFails
    \/ WatcherCloses

RegSpec == RegInit /\ [][RegNext]_vars

TypeOK ==
    /\ pc \in {"new", "invalid", "start", "select", "life", "unexpose", "delete", "lookup",
               "handshake", "stop", "stopwait", "check", "config", "construct",
               "addstop", "done"}
    /\ batch \in Batches(MaxEntries)
    /\ curW \in 0 .. Len(workers)
    /\ DOMAIN appWorkers \subseteq Apps
    /\ \A a \in DOMAIN appWorkers : appWorkers[a] \in WorkerIds
    /\ nEntries <= MaxEntries

\* ============================================================== claims
\* The entry in hand (or the last one handled) began with Life = NotFound.
NotFoundObserved == Len(calls) >= 1 /\ calls[1] = Call("Life", calls[1].app, "notfound")

\* How many times op was called for the entry in hand.
Count(op) == Cardinality({i \in DOMAIN calls : calls[i].op = op})

\* The handling of the entry in hand is over: the loop went on, or returned.
EntryOver == pc \in {"life", "select", "done"}

\* Worker w is the one the registry holds for its application.
IsRegistered(w) ==
    /\ workers[w].app \in DOMAIN appWorkers
    /\ appWorkers[workers[w].app] = w

\* The task of worker w has not finished: it runs or is being stopped.
Live(w) == workers[w].st # "dead"

\* C1 as stated: once the handling of a NotFound observation is over,
\* UnexposeService and DeleteService have each been invoked exactly once for
\* it, UnexposeService first, whatever the broker calls returned.
C1_BothExactlyOnce ==
    (NotFoundObserved /\ EntryOver) =>
        /\ Count("UnexposeService") = 1
        /\ Count("DeleteService") = 1
        /\ calls[2].op = "UnexposeService"
        /\ calls[3].op = "DeleteService"

\* C1, amended: for a NotFound observation of a, UnexposeService(a) is
\* invoked exactly once, as the first call after Life; DeleteService(a) is
\* invoked exactly once, right after it, when UnexposeService returned no
\* error, and is not invoked at all when UnexposeService failed.
C1_UnexposeThenDelete ==
    NotFoundObserved =>
        /\ Count("UnexposeService") = (IF pc = "unexpose" THEN 0 ELSE 1)
        /\ pc # "unexpose" =>
              /\ calls[2].op = "UnexposeService"
              /\ calls[2].app = calls[1].app
              /\ Count("DeleteService") =
                    (IF calls[2].res = "ok" /\ pc # "delete" THEN 1 ELSE 0)
              /\ Count("DeleteService") = 1 =>
                    /\ calls[3].op = "DeleteService"
                    /\ calls[3].app = calls[1].app

C1_Witness ==
    /\ NotFoundObserved
    /\ EntryOver
    /\ Len(calls) >= 3
    /\ calls[2] = Call("UnexposeService", calls[1].app, "ok")
    /\ calls[3].op = "DeleteService"

\* C2: at most one live worker per application name; a worker is constructed
\* and registered only for a name that was not registered and whose Life was
\* not Dead, exactly one per such entry; an entry for a name that is
\* registered makes no call after the registry lookup (no ApplicationConfig,
\* no construction, no registry write).
C2_OneWorkerPerName ==
    /\ \A a \in Apps :
          Cardinality({w \in WorkerIds : workers[w].app = a /\ Live(w)}) <= 1
    /\ \A a \in DOMAIN appWorkers : workers[appWorkers[a]].app = a
    /\ (Len(calls) >= 2 /\ calls[1].op = "Life" /\ calls[1].res # "notfound"
            /\ calls[2].res = "found") =>
          /\ Len(calls) = 2
          /\ EntryOver
    /\ Count("ApplicationConfig") + Count("newApplicationWorker") > 0 =>
          /\ calls[1].res \in {"alive", "dying"}
          /\ calls[2] = Call("getApplicationWorker", calls[1].app, "absent")
          /\ Count("ApplicationConfig") = 1
    /\ Count("newApplicationWorker") <= 1
    /\ (Count("newApplicationWorker") = 1 /\ calls[Len(calls)].res = "ok") =>
          /\ calls[1].app \in DOMAIN appWorkers
          /\ appWorkers[calls[1].app] = Len(workers)

\* Scenario C: a second entry for a registered, alive application is a no-op.
C2_Witness ==
    /\ Len(calls) = 2
    /\ calls[1].res = "alive"
    /\ calls[2].res = "found"
    /\ Live(appWorkers[calls[1].app])
    /\ EntryOver

\* C3 as stated: a name is registered if and only if a worker task for it is
\* running or being stopped.
C3_EntryIffLive ==
    \A a \in Apps :
        (a \in DOMAIN appWorkers) <=>
            (\E w \in WorkerIds : workers[w].app = a /\ Live(w))

\* C3, amended: every worker that is running or being stopped is the one
\* registered under its name, and the registry holds a worker from its
\* construction until the NotFound path removes it, so an entry also stays
\* for a worker that has finished: a worker is out of the registry if and
\* only if the NotFound path has signalled its removal channel, stopped it
\* and gone on.
C3_EntryUntilRemoved ==
    /\ \A a \in DOMAIN appWorkers :
          appWorkers[a] \in WorkerIds /\ workers[appWorkers[a]].app = a
    /\ \A w \in WorkerIds :
          /\ Live(w) => IsRegistered(w)
          /\ IsRegistered(w) <=>
                (workers[w].ch = "open" \/ (curW = w /\ pc \in {"stop", "stopwait"}))

\* A worker that finished by itself, without an error, is still registered.
C3_Witness ==
    \E w \in WorkerIds :
        /\ IsRegistered(w)
        /\ ~Live(w)
        /\ workers[w].err = Nil
        /\ ~rootDying
        /\ pc = "select"

\* C4: when the NotFound path is about to request the stop of a worker, the
\* worker has received the removal notice, or the channel was closed because
\* the worker's death signal had fired; a worker that is not dying has
\* received the notice.
C4_NotifyBeforeKill ==
    pc = "stop" =>
        \/ workers[curW].ch = "sent"
        \/ workers[curW].ch = "closed" /\ WorkerDying(curW)

C4_Witness ==
    /\ pc = "stop"
    /\ workers[curW].ch = "sent"
    /\ ~WorkerDying(curW)

\* The names workers can have within the bound.
MaxWorkerIds == 1 .. MaxEntries

\* The loop is in the handshake with worker w, whose task ended by itself or
\* has finished: its death signal has fired and nothing can take the notice.
HandshakeWithDeadWorker(w) ==
    /\ w \in WorkerIds
    /\ pc = "handshake"
    /\ curW = w
    /\ workers[w].st \in {"stopping", "dead"}

\* C5: if the death signal of a registered worker has fired when the root
\* reaches the removal handshake, the root closes the removal channel and
\* does not send, the worker is stopped, its entry leaves the registry, and
\* the loop goes on to the next entry.
C5_HandshakeNeverBlocks ==
    \A w \in MaxWorkerIds :
        HandshakeWithDeadWorker(w) ~>
            (/\ w \in WorkerIds
             /\ workers[w].ch = "closed"
             /\ workers[w].st = "dead"
             /\ ~IsRegistered(w)
             /\ EntryOver)

C5_Witness == \E w \in WorkerIds : HandshakeWithDeadWorker(w)

\* The last call made for the entry in hand.
LastCall == calls[Len(calls)]

\* C6 as stated: when the stop of a worker on the NotFound path fails, the
\* registry entry is removed and the loop goes on, and the worker's error is
\* not the root's terminal error.
C6_StopFailureOnlyLogged ==
    /\ (Len(calls) >= 1 /\ LastCall = Call("Stop", LastCall.app, "err")) =>
          /\ LastCall.app \notin DOMAIN appWorkers
          /\ EntryOver
    /\ \A w \in WorkerIds :
          (~IsRegistered(w) /\ workers[w].ch = "sent" /\ workers[w].err # Nil)
              => rootErr # workers[w].err

\* The calls whose error the loop returns at once.
FailFastOps == {"Life", "UnexposeService", "DeleteService", "ApplicationConfig"}

FailFastErrs == {Err(op, 0) : op \in FailFastOps}

LastCallFailed ==
    /\ Len(calls) >= 1
    /\ LastCall.res = "err"
    /\ LastCall.op \in FailFastOps

\* e is the error of a child of the root that failed.
ChildFailed(e) ==
    \/ e = ErrWatcher /\ watcher.st = "failed"
    \/ \E w \in WorkerIds :
          /\ workers[w].attached
          /\ workers[w].st = "dead"
          /\ workers[w].err = e
          /\ e # Nil

\* C7 as stated: Wait() returns the error of the failed call.
C7_WaitReturnsCallError ==
    (waitResult # Pending /\ loopRet \in FailFastErrs) => waitResult = loopRet

\* C7, amended: an error from Life other than NotFound, from
\* ApplicationConfig, UnexposeService or DeleteService makes the loop return
\* that error at once; once returned the loop handles no further name, reads
\* no batch and repeats no call; the error becomes the root's terminal error
\* unless one was recorded before, and Wait() returns it unless a child of
\* the root had failed first, in which case Wait() returns that child's error.
C7_FailFast ==
    /\ [](LastCallFailed => (pc = "done" /\ loopRet = Err(LastCall.op, 0)))
    /\ [][pc = "done" =>
            UNCHANGED <<pc, batch, calls, nEntries, appWorkers, loopRet>>]_vars
    /\ [][(pc # "done" /\ pc' = "done" /\ loopRet' \in FailFastErrs) =>
            rootErr' = (IF rootErr = Nil THEN loopRet' ELSE rootErr)]_vars
    /\ []((waitResult # Pending /\ loopRet \in FailFastErrs) =>
            (waitResult = loopRet \/ ChildFailed(waitResult)))

\* Life fails on the first of two names: the second is never handled.
C7_Witness ==
    /\ waitResult = ErrLife
    /\ Len(batch) >= 2
    /\ LastCall = Call("Life", Head(batch), "err")

\* C8 as stated: Wait() returns "watcher closed channel".
C8_WaitReturnsClosed ==
    (waitResult # Pending /\ loopRet = ErrClosed) => waitResult = ErrClosed

\* C8, amended: when the Changes() channel is closed the loop returns
\* "watcher closed channel" (once its select runs; a dying root may make it
\* return ErrDying instead), and Wait() returns that error unless a child of
\* the root had failed first, in which case Wait() returns that child's error.
C8_ClosedChannel ==
    /\ [][(pc = "select" /\ watcher.closed /\ ~rootDying /\ pc' # "select") =>
            (pc' = "done" /\ loopRet' = ErrClosed /\ rootErr' = ErrClosed)]_vars
    /\ [][(pc = "select" /\ watcher.closed /\ pc' # "select") =>
            (pc' = "done" /\ loopRet' \in {ErrClosed, ErrDying})]_vars
    /\ []((waitResult # Pending /\ loopRet = ErrClosed) =>
            (waitResult = ErrClosed \/ ChildFailed(waitResult)))

C8_Witness ==
    /\ waitResult = ErrClosed
    /\ loopRet = ErrClosed
    /\ watcher.closed

\* The watcher and every registered worker have been asked to stop.
AllAskedToStop ==
    /\ watcher.st # "running"
    /\ \A a \in DOMAIN appWorkers : workers[appWorkers[a]].st # "running"

\* The loop and every child attached to the root have finished.
AllFinished ==
    /\ pc = "done"
    /\ watcher.st # "running"
    /\ \A w \in WorkerIds : workers[w].attached => workers[w].st = "dead"

\* Nothing fatal happened: no call failed, the channel was not closed, and
\* neither the watcher nor a worker ended with an error.
NoFatal ==
    /\ ~(Len(calls) >= 1 /\ LastCall.res = "err")
    /\ ~watcher.closed
    /\ watcher.st # "failed"
    /\ \A w \in WorkerIds : workers[w].err = Nil

\* C9: once the root is dying (Kill), the watcher and every registered
\* worker are eventually asked to stop; Wait() returns only when the loop and
\* all attached children have finished; and it returns nil when nothing
\* fatal happened.
C9_TreeWideCancellation ==
    /\ rootDying ~> AllAskedToStop
    /\ [](waitResult # Pending => AllFinished)
    /\ []((waitResult # Pending /\ NoFatal) => waitResult = Nil)

\* A clean shutdown of a root with two workers.
C9_Witness ==
    /\ waitResult = Nil
    /\ NoFatal
    /\ Len(workers) >= 2
    /\ \A w \in WorkerIds : workers[w].attached

\* Some worker bound to the root has ended with an error.
SomeWorkerFailed ==
    \E w \in WorkerIds :
        workers[w].attached /\ workers[w].st = "dead" /\ workers[w].err # Nil

\* C10: the failure of a worker of a live root kills the root with the
\* worker's error; the recorded error is never replaced (first error wins);
\* after a failure the watcher and all workers are eventually asked to stop;
\* and Wait() returns the recorded error.
C10_WorkerFailureIsFatal ==
    /\ [][\A w \in MaxWorkerIds :
            (/\ w <= Len(workers)
             /\ workers[w].st # "dead"
             /\ workers'[w].st = "dead"
             /\ workers'[w].err # Nil
             /\ ~rootDying)
                => (rootDying' /\ rootErr' = workers'[w].err)]_vars
    /\ [][rootErr # Nil => rootErr' = rootErr]_vars
    /\ SomeWorkerFailed ~> AllAskedToStop
    /\ []((waitResult # Pending /\ SomeWorkerFailed) =>
            (waitResult = rootErr /\ waitResult # Nil))

\* Worker 1 failed first; worker 2 was stopped; Wait() returned worker 1's error.
C10_Witness ==
    /\ Len(workers) >= 2
    /\ waitResult = ErrWorker(1)
    /\ workers[1].err = ErrWorker(1)
    /\ workers[2].attached
    /\ workers[2].st = "dead"

\* C11: the removal channel of a worker is made with the worker and belongs
\* to it alone; the root fires it at most once, by one send or by one close,
\* never both and never twice, and only in the removal handshake with that
\* worker.
C11_RemovalSignalFiredOnce ==
    /\ [](\A w \in WorkerIds :
            /\ workers[w].fired <= 1
            /\ workers[w].fired = 0 <=> workers[w].ch = "open"
            /\ \A v \in WorkerIds : v # w => workers[v].chan # workers[w].chan)
    /\ [][\A w \in MaxWorkerIds :
            IF w <= Len(workers)
            THEN (workers'[w].ch # workers[w].ch
                    \/ workers'[w].fired # workers[w].fired) =>
                      (/\ pc = "handshake"
                       /\ curW = w
                       /\ workers[w].ch = "open"
                       /\ workers'[w].ch \in {"sent", "closed"}
                       /\ workers'[w].fired = 1)
            ELSE w <= Len(workers') =>
                      (workers'[w].ch = "open" /\ workers'[w].fired = 0)]_vars

\* A worker was removed with its channel fired, and the worker made next for
\* the same application has a channel of its own, not fired.
C11_Witness ==
    \E w, v \in WorkerIds :
        /\ w # v
        /\ workers[w].app = workers[v].app
        /\ workers[w].fired = 1
        /\ workers[v].fired = 0
        /\ workers[v].chan # workers[w].chan

\* C12: an entry for an application that is not registered and whose Life is
\* Dead makes no call after the registry lookup and registers nothing; a name
\* enters the registry only on an entry whose Life was Alive or Dying, so the
\* registry holds no name last seen Dead unless it was registered before.
C12_DeadNeverRegistered ==
    /\ []((/\ Len(calls) >= 2
           /\ calls[1] = Call("Life", calls[1].app, "dead")
           /\ calls[2] = Call("getApplicationWorker", calls[1].app, "absent")) =>
            (/\ Len(calls) = 2
             /\ EntryOver
             /\ calls[1].app \notin DOMAIN appWorkers))
    /\ [][\A a \in Apps :
            (a \notin DOMAIN appWorkers /\ a \in DOMAIN appWorkers') =>
                (/\ pc = "construct"
                 /\ a = appId
                 /\ calls[1] \in {Call("Life", a, "alive"),
                                  Call("Life", a, "dying")})]_vars

C12_Witness ==
    /\ Len(calls) = 2
    /\ calls[1] = Call("Life", calls[1].app, "dead")
    /\ calls[2].res = "absent"
    /\ EntryOver
    /\ appWorkers # [a \in {} |-> 0]

\* C13: NewWorker with a Config in which a field is missing returns a
\* NotValid error naming a missing field, and nothing has been started: no
\* loop, no watcher, no worker, no call.
C13_InvalidConfigRefused ==
    /\ config # ConfigFields =>
          /\ pc \in {"new", "invalid"}
          /\ watcher.st = "none"
          /\ workers = <<>>
          /\ calls = <<>>
          /\ ~rootDying
    /\ pc = "invalid" =>
          /\ config # ConfigFields
          /\ newErr.kind = "NotValid"
          /\ newErr.missing \in ConfigFields \ config
    /\ (pc \notin {"new", "invalid"}) => newErr = Nil

\* Only the last field checked is missing.
C13_Witness ==
    /\ pc = "invalid"
    /\ config = ConfigFields \ {"UnitUpdater"}
    /\ newErr = NotValidf("UnitUpdater")

\* The calls of a NotFound entry for application a whose cleanup succeeded,
\* up to the registry lookup that answered res.
CleanupThenLookup(a, res) ==
    <<Call("Life", a, "notfound"), Call("UnexposeService", a, "ok"),
      Call("DeleteService", a, "ok"), Call("getApplicationWorker", a, res)>>

FiredUnchanged == \A w \in WorkerIds : workers'[w].fired = workers[w].fired

\* C14: a NotFound entry for a name with no registered worker calls
\* UnexposeService, then DeleteService, finds no worker and continues with
\* the next entry: the registry is as it was, no channel is sent on or
\* closed, no worker is stopped.
C14_NotFoundUnregistered ==
    /\ []((NotFoundObserved
             /\ \E i \in DOMAIN calls : calls[i].res = "absent") =>
            (/\ calls = CleanupThenLookup(calls[1].app, "absent")
             /\ EntryOver
             /\ curW = 0))
    /\ [][(pc \in {"unexpose", "delete", "lookup"} /\ ~Registered(appId)) =>
            (/\ appWorkers' = appWorkers
             /\ FiredUnchanged
             /\ pc' \notin {"handshake", "stop", "stopwait"}
             /\ (pc = "lookup" /\ pc' # pc) =>
                   (/\ batch' = Tail(batch)
                    /\ pc' \in {"life", "select"}
                    /\ loopRet' = loopRet))]_vars

\* The entry is over, and the registry holds another application's worker.
C14_Witness ==
    /\ Len(calls) = 4
    /\ calls = CleanupThenLookup(calls[1].app, "absent")
    /\ EntryOver
    /\ appWorkers # [a \in {} |-> 0]
    /\ \A w \in WorkerIds : workers[w].fired = 0 /\ workers[w].st = "running"

CleanupFailed ==
    \E i \in DOMAIN calls :
        /\ calls[i].op \in {"UnexposeService", "DeleteService"}
        /\ calls[i].res = "err"

\* C15: when the loop is in the handshake with a worker, stops it or waits
\* for it, UnexposeService and then DeleteService have both returned without
\* error for that application; once either has failed the loop has returned,
\* and no channel is fired and no name leaves the registry afterwards.
C15_CleanupBeforeHandshake ==
    /\ [](pc \in {"handshake", "stop", "stopwait"} =>
            (/\ calls = CleanupThenLookup(appId, "found")
             /\ curW = appWorkers[appId]))
    /\ [](CleanupFailed =>
            (/\ pc = "done"
             /\ LastCall.res = "err"
             /\ loopRet = Err(LastCall.op, 0)
             /\ Count("getApplicationWorker") = 0
             /\ Count("Stop") = 0))
    /\ [][CleanupFailed => (appWorkers' = appWorkers /\ FiredUnchanged)]_vars
    /\ [][(appWorkers' # appWorkers /\ pc = "stopwait") =>
            (/\ calls' = Append(CleanupThenLookup(appId, "found"), calls'[5])
             /\ calls'[5].op = "Stop"
             /\ workers[curW].fired = 1)]_vars

\* The handshake with the registered worker has been made.
C15_Witness ==
    /\ pc = "stop"
    /\ workers[curW].fired = 1
    /\ calls = CleanupThenLookup(appId, "found")

\* C16: the loop takes a batch from the watcher only when no name of the
\* batch before is left; the names of a batch are handled one after the
\* other, in order, each one dropped only after its Life call.
C16_BatchesInSequence ==
    /\ [](pc = "select" => batch = <<>>)
    /\ [](pc \notin {"new", "invalid", "start", "select", "done"} =>
            batch # <<>>)
    /\ []((pc \notin {"life", "done"} /\ batch # <<>>) =>
            (calls # <<>> /\ calls[1].op = "Life" /\ calls[1].app = appId))
    /\ [][nEntries' # nEntries =>
            (/\ batch = <<>>
             /\ pc = "select"
             /\ nEntries' = nEntries + Len(batch'))]_vars
    /\ [][batch' # batch =>
            \/ batch = <<>> /\ pc = "select"
            \/ /\ batch # <<>>
               /\ batch' = Tail(batch)
               /\ calls # <<>>
               /\ calls[1].op = "Life"
               /\ calls[1].app = appId]_vars

\* The first name of a batch has been handled, the second is next.
C16_Witness ==
    /\ pc = "life"
    /\ calls # <<>>
    /\ batch # <<>>
    /\ nEntries = Len(batch) + 1

\* C19: a name leaves the registry only in the NotFound path, after the
\* worker registered for it was stopped; nothing else removes or replaces
\* an entry, and an entry whose Life is Alive, Dying or Dead for a
\* registered name constructs no worker, also when that worker has finished.
C19_OnlyNotFoundRemoves ==
    /\ [][\A a \in DOMAIN appWorkers :
            IF a \in DOMAIN appWorkers'
            THEN appWorkers'[a] = appWorkers[a]
            ELSE /\ pc = "stopwait"
                 /\ a = appId
                 /\ NotFoundObserved
                 /\ workers[appWorkers[a]].st = "dead"]_vars
    /\ []((/\ Len(calls) >= 2
           /\ calls[1].op = "Life"
           /\ calls[1].res \in LifeValues
           /\ calls[2].res = "found") =>
            (/\ Len(calls) = 2
             /\ EntryOver
             /\ Registered(calls[1].app)))

\* The only worker finished by itself, the root is alive, and a later
\* Alive or Dying entry for its application found it registered.
C19_Witness ==
    /\ Len(calls) = 2
    /\ calls[1].res \in {"alive", "dying"}
    /\ calls[2].res = "found"
    /\ pc = "select"
    /\ ~rootDying
    /\ nEntries >= 2
    /\ Len(workers) = 1
    /\ workers[1].st = "dead"
    /\ appWorkers[calls[1].app] = 1

\* C20: the loop returns ErrDying only from the select between two batches
\* (or from adding the watcher); once the root is dying the loop ends and
\* every worker, also one constructed after the root began to die, has
\* finished; when Wait() has returned no worker is left running.
C20_KillEndsLoopAndWorkers ==
    /\ [][(loopRet' = ErrDying /\ loopRet # ErrDying) =>
            pc \in {"start", "select"}]_vars
    /\ rootDying ~> (pc = "done" /\ \A w \in WorkerIds : workers[w].st = "dead")
    /\ [](waitResult # Pending => \A w \in WorkerIds : workers[w].st = "dead")

\* After Kill() the loop went on with its batch and constructed a worker,
\* which the dying catacomb stopped; Wait() returned nil.
C20_Witness ==
    /\ waitResult = Nil
    /\ loopRet = ErrDying
    /\ \E w \in WorkerIds : ~workers[w].attached /\ workers[w].st = "dead"

\* C17: while the loop holds p.mu it takes no step of its own but those of
\* the helper it is in: it makes no call, receives no batch, fires no
\* channel and waits for nothing; and it holds the mutex only inside a
\* helper, for one operation on the map.
C17_LockOnlyInsideHelper ==
    /\ [](mu = "loop" => (lk.pc \in {"locked", "writing", "done"}
                           /\ lk.at = LoopAt))
    /\ [](lk.pc \in {"locked", "writing", "done"} => mu = "loop")
    /\ [][mu = "loop" =>
            (/\ pc' = pc
             /\ calls' = calls
             /\ batch' = batch
             /\ FiredUnchanged)]_vars

\* The loop is in the removal handshake, after its lookup returned, and
\* the mutex is with the other caller.
C17_Witness ==
    /\ pc = "handshake"
    /\ lk.pc = "returned"
    /\ mu = "test"

\* C18: the map is changed and read only by the caller that holds p.mu,
\* so a lookup answers with what the registry held for the name at some
\* moment between its call and its read, also when the call overlaps the
\* first save; and the loop's own lookup answers with the registry's state.
C18_HelpersAtomic ==
    /\ rd.pc = "read" => rd.res \in rd.seen
    /\ lk.pc = "writing" => (mu = "loop" /\ rd.pc \notin {"locked", "read"})
    /\ rd.pc \in {"locked", "read"} => mu = "test"
    /\ (HelperReturned /\ HelperOp = "get") =>
          lk.res = GetApplicationWorker(appWorkers, appId)
    /\ allocated = FALSE => appWorkers = [a \in {} |-> 0]

\* A lookup called before the first save was complete read the map after it.
C18_Witness ==
    /\ rd.pc = "read"
    /\ rd.seen = {0, 1}
    /\ rd.res = 1
    /\ Len(workers) = 0
====
